---------------------------- MODULE Spec2Model ----------------------------
(***************************************************************************)
(* Model of the algebra expression engine of src/src/algebra/base.ts:      *)
(* AlgExpr trees, renderExpression, tokenize, the recursive-descent        *)
(* Parser (as a machine with an explicit call stack and one cursor),       *)
(* evaluateExpression and areExpressionsEquivalent.                        *)
(*                                                                         *)
(* Numbers: the program computes with JavaScript numbers.  Within the      *)
(* bounds used here every integer is far below 2^53, so integer            *)
(* arithmetic is exact and is modelled by TLA+ integers; -0 is identified  *)
(* with 0 (the program only observes numbers through ===, <, % and         *)
(* toString, none of which tells them apart).  The floating-point values   *)
(* of getComputedValue are modelled as exact rationals plus NaN.           *)
(***************************************************************************)
EXTENDS Integers, Sequences, FiniteSets, TLC

VARIABLES
    text,        \* parseExpression's argument: a sequence of characters, or NoText
    tokens,      \* Parser.tokens
    pos,         \* Parser.pos, the cursor
    stack,       \* the call stack of the Parser's methods, innermost frame last
    ret,         \* the value returned by the call that finished last
    status,      \* "idle", "running", "ok", or the message of the Error thrown
    srcExpr,     \* the tree whose rendering is being parsed (round trip), or None
    expr,        \* the argument of evaluateExpression, or None
    evaluated,   \* evaluateExpression(expr), or None
    reevaluated, \* evaluateExpression(evaluated), or None
    expr1,       \* areExpressionsEquivalent: first argument
    expr2,       \* areExpressionsEquivalent: second argument
    iter,        \* areExpressionsEquivalent: the loop counter i
    varMap,      \* areExpressionsEquivalent: the trial's random assignment
    val1,        \* areExpressionsEquivalent: the trial's val1
    val2,        \* areExpressionsEquivalent: the trial's val2
    eqpc,        \* areExpressionsEquivalent: "idle", "loop", "drawn", "done"
    eqResult     \* areExpressionsEquivalent: "none", "true", "false"

vars == <<text, tokens, pos, stack, ret, status, srcExpr, expr, evaluated,
          reevaluated, expr1, expr2, iter, varMap, val1, val2, eqpc, eqResult>>

parserVars == <<text, tokens, pos, stack, ret, status, srcExpr>>
evalVars == <<expr, evaluated, reevaluated>>
equivVars == <<expr1, expr2, iter, varMap, val1, val2, eqpc, eqResult>>

-----------------------------------------------------------------------------
(* Bounds of the model. *)

\* Largest integer literal of the enumerated trees.
MaxInt == 3

\* Largest number of nodes of the trees handed to evaluateExpression.
MaxNodes == 5

\* Largest number of nodes of the trees that are rendered and parsed back.
MaxRenderNodes == 4

\* Longest enumerated token sequence.
MaxLen == 5

-----------------------------------------------------------------------------
(* AlgExpr: the tagged union of base.ts lines 1-8. *)

IntNode(n) == [type |-> "Int", value |-> n]

VarNode(name) == [type |-> "Var", name |-> name]

BinNode(type, a, b) == [type |-> type, arg1 |-> a, arg2 |-> b]

AddNode(a, b) == BinNode("Add", a, b)

SubNode(a, b) == BinNode("Sub", a, b)

MulNode(a, b) == BinNode("Mul", a, b)

DivNode(a, b) == BinNode("Div", a, b)

NegNode(a) == [type |-> "Neg", arg |-> a]

\* Absence of a tree (undefined).
None == [type |-> "None"]

BinTypes == {"Add", "Sub", "Mul", "Div"}

Abs(n) == IF n < 0 THEN -n ELSE n

-----------------------------------------------------------------------------
(* evaluateExpression and its helpers. *)

isNumber(e) ==
    \/ e.type = "Int"
    \/ (e.type = "Neg" /\ e.arg.type = "Int")

\* Only applied to expressions isNumber accepts: the throw is unreachable.
getValue(e) ==
    IF e.type = "Neg" /\ e.arg.type = "Int" THEN -e.arg.value ELSE e.value

standardizeNumberKeepSign(n) == IntNode(n)

standardizeNumber(n) ==
    IF n < 0 THEN NegNode(IntNode(-n)) ELSE IntNode(n)

\* JavaScript's a % b for integers, b # 0: the sign of the dividend.
JsRem(a, b) ==
    IF a >= 0 THEN a % Abs(b) ELSE -((-a) % Abs(b))

\* JavaScript's a / b for integers where b divides a.
JsQuot(a, b) ==
    IF (a < 0) = (b < 0) THEN Abs(a) \div Abs(b) ELSE -(Abs(a) \div Abs(b))

evalArithSubSwapped(type, left, right) ==
    IF isNumber(left) /\ isNumber(right)
    THEN standardizeNumber(
            CASE type = "Add" -> getValue(left) + getValue(right)
              [] type = "Sub" -> getValue(right) - getValue(left)
              [] type = "Mul" -> getValue(left) * getValue(right))
    ELSE BinNode(type, left, right)

\* Lines 260-277: the Add/Sub/Mul node once both children are evaluated.
evalArith(type, left, right) ==
    IF isNumber(left) /\ isNumber(right)
    THEN standardizeNumber(
            CASE type = "Add" -> getValue(left) + getValue(right)
              [] type = "Sub" -> getValue(left) - getValue(right)
              [] type = "Mul" -> getValue(left) * getValue(right))
    ELSE BinNode(type, left, right)

evalDivTruncating(left, right) ==
    IF /\ isNumber(left)
       /\ isNumber(right)
       /\ getValue(right) # 0
    THEN standardizeNumber(JsQuot(getValue(left), getValue(right)))
    ELSE BinNode("Div", left, right)

\* Lines 285-291: the Div node once both children are evaluated.
evalDiv(left, right) ==
    IF /\ isNumber(left)
       /\ isNumber(right)
       /\ getValue(right) # 0
       /\ JsRem(getValue(left), getValue(right)) = 0
    THEN standardizeNumber(JsQuot(getValue(left), getValue(right)))
    ELSE BinNode("Div", left, right)

\* Lines 297-300: the Neg node once its child is evaluated.
evalNeg(argEval) ==
    IF argEval.type = "Neg" THEN argEval.arg ELSE NegNode(argEval)

RECURSIVE evaluateExpression(_)

negArgUnevaluated(expression) == expression.arg

\* Line 296: the Neg node's child, evaluated first.
negArgEval(expression) == evaluateExpression(expression.arg)

evaluateExpression(expression) ==
    IF expression.type \in {"Add", "Sub", "Mul"}
    THEN evalArith(expression.type,
                   evaluateExpression(expression.arg1),
                   evaluateExpression(expression.arg2))
    ELSE IF expression.type = "Div"
    THEN evalDiv(evaluateExpression(expression.arg1),
                 evaluateExpression(expression.arg2))
    ELSE IF expression.type = "Neg"
    THEN evalNeg(negArgEval(expression))
    ELSE expression

-----------------------------------------------------------------------------
(* Strings are sequences of one-character strings. *)

Digits == <<"0", "1", "2", "3", "4", "5", "6", "7", "8", "9">>

DigitChars == {Digits[i] : i \in 1..10}

\* /[a-zA-Z]/
LetterChars ==
    {"a", "b", "c", "d", "e", "f", "g", "h", "i", "j", "k", "l", "m",
     "n", "o", "p", "q", "r", "s", "t", "u", "v", "w", "x", "y", "z",
     "A", "B", "C", "D", "E", "F", "G", "H", "I", "J", "K", "L", "M",
     "N", "O", "P", "Q", "R", "S", "T", "U", "V", "W", "X", "Y", "Z"}

\* /\s/ (the ASCII part)
SpaceChars == {" ", "\t", "\n", "\r", "\f"}

OpChars == {"+", "-", "*", "/"}

RECURSIVE natToString(_)

\* Number.prototype.toString of a non-negative integer: its decimal digits.
natToString(n) ==
    IF n < 10 THEN <<Digits[n + 1]>>
    ELSE natToString(n \div 10) \o <<Digits[(n % 10) + 1]>>

\* Number.prototype.toString of an integer.
numberToString(n) ==
    IF n < 0 THEN <<"-">> \o natToString(-n) ELSE natToString(n)

DigitValue(c) == CHOOSE d \in 0..9 : Digits[d + 1] = c

RECURSIVE parseInt(_)

\* parseInt of a non-empty run of decimal digits.
parseInt(numStr) ==
    IF Len(numStr) = 1 THEN DigitValue(numStr[1])
    ELSE parseInt(SubSeq(numStr, 1, Len(numStr) - 1)) * 10
            + DigitValue(numStr[Len(numStr)])

-----------------------------------------------------------------------------
(* renderExpression, lines 10-27. *)

OpText(type) ==
    CASE type = "Add" -> <<" ", "+", " ">>
      [] type = "Sub" -> <<" ", "-", " ">>
      [] type = "Mul" -> <<" ", "*", " ">>
      [] type = "Div" -> <<" ", "/", " ">>

RECURSIVE renderExpression(_)

renderNegBare(expression) ==
    <<"-">> \o renderExpression(expression.arg)

\* Line 25: `(-${renderExpression(expression.arg)})`
renderNeg(expression) ==
    <<"(", "-">> \o renderExpression(expression.arg) \o <<")">>

renderBinBare(expression) ==
    renderExpression(expression.arg1) \o OpText(expression.type)
        \o renderExpression(expression.arg2)

\* Lines 17, 19, 21, 23: `(${render(arg1)} op ${render(arg2)})`
renderBin(expression) ==
    <<"(">> \o renderExpression(expression.arg1) \o OpText(expression.type)
        \o renderExpression(expression.arg2) \o <<")">>

renderExpression(expression) ==
    CASE expression.type = "Int" -> numberToString(expression.value)
      [] expression.type = "Var" -> expression.name
      [] expression.type \in BinTypes -> renderBin(expression)
      [] expression.type = "Neg" -> renderNeg(expression)

-----------------------------------------------------------------------------
(* tokenize, lines 50-116. *)

NumberTok(v) == [type |-> "number", value |-> v]

VarTok(name) == [type |-> "var", name |-> name]

OpTok(op) == [type |-> "op", op |-> op]

LParenTok == [type |-> "lparen"]

RParenTok == [type |-> "rparen"]

RECURSIVE RunEnd(_, _, _)

\* The inner while loops (lines 73-76, 84-87): the first index from i on whose
\* character is not in class, or Len(input) + 1.
RunEnd(input, i, class) ==
    IF i <= Len(input) /\ input[i] \in class
    THEN RunEnd(input, i + 1, class)
    ELSE i

RECURSIVE tokenizeFrom(_, _, _)

\* The outer while loop (lines 61-113) from index i on, with the tokens
\* pushed so far.  The result is the token list, or the Error thrown.
tokenizeFrom(input, i, acc) ==
    IF i > Len(input) THEN [ok |-> TRUE, tokens |-> acc]
    ELSE LET char == input[i] IN
         IF char \in SpaceChars THEN tokenizeFrom(input, i + 1, acc)
         ELSE IF char \in DigitChars THEN
            LET j == RunEnd(input, i, DigitChars) IN
            tokenizeFrom(input, j,
                Append(acc, NumberTok(parseInt(SubSeq(input, i, j - 1)))))
         ELSE IF char \in LetterChars THEN
            LET j == RunEnd(input, i, LetterChars) IN
            tokenizeFrom(input, j, Append(acc, VarTok(SubSeq(input, i, j - 1))))
         ELSE IF char \in OpChars THEN
            tokenizeFrom(input, i + 1, Append(acc, OpTok(char)))
         ELSE IF char = "(" THEN
            tokenizeFrom(input, i + 1, Append(acc, LParenTok))
         ELSE IF char = ")" THEN
            tokenizeFrom(input, i + 1, Append(acc, RParenTok))
         ELSE [ok |-> FALSE, tokens |-> <<>>]

tokenize(input) == tokenizeFrom(input, 1, <<>>)

-----------------------------------------------------------------------------
(* areExpressionsEquivalent's helpers, lines 310-360.  A value of          *)
(* getComputedValue is NaN or a rational num/den in lowest terms, den > 0. *)

RECURSIVE getVariablesSet(_)

getVariablesSet(e) ==
    IF e.type = "Var" THEN {e.name}
    ELSE IF e.type = "Neg" THEN getVariablesSet(e.arg)
    ELSE IF e.type \in BinTypes
    THEN getVariablesSet(e.arg1) \cup getVariablesSet(e.arg2)
    ELSE {}

RECURSIVE substituteVariables(_, _)

substituteVariablesSkippingNeg(m, e) ==
    IF e.type = "Var" THEN IntNode(m[e.name])
    ELSE IF e.type \in BinTypes
    THEN BinNode(e.type, substituteVariables(m, e.arg1),
                 substituteVariables(m, e.arg2))
    ELSE e

substituteVariables(m, e) ==
    IF e.type = "Var" THEN IntNode(m[e.name])
    ELSE IF e.type = "Neg" THEN NegNode(substituteVariables(m, e.arg))
    ELSE IF e.type \in BinTypes
    THEN BinNode(e.type, substituteVariables(m, e.arg1),
                 substituteVariables(m, e.arg2))
    ELSE e

RECURSIVE Gcd(_, _)

Gcd(a, b) == IF b = 0 THEN a ELSE Gcd(b, a % b)

NaN == [nan |-> TRUE, num |-> 0, den |-> 1]

\* The number n/d, d # 0.
Rat(n, d) ==
    LET g == Gcd(Abs(n), Abs(d))
        sgn == IF d < 0 THEN -1 ELSE 1
    IN  [nan |-> FALSE, num |-> sgn * (n \div g), den |-> Abs(d) \div g]

isNaN(v) == v.nan

\* The arithmetic of numbers: NaN if an operand is NaN.
NumNeg(a) == IF a.nan THEN NaN ELSE Rat(-a.num, a.den)

NumAdd(a, b) ==
    IF a.nan \/ b.nan THEN NaN
    ELSE Rat(a.num * b.den + b.num * a.den, a.den * b.den)

NumSub(a, b) == NumAdd(a, NumNeg(b))

NumMul(a, b) ==
    IF a.nan \/ b.nan THEN NaN ELSE Rat(a.num * b.num, a.den * b.den)

\* a / b for b # 0.
NumDiv(a, b) ==
    IF a.nan \/ b.nan THEN NaN ELSE Rat(a.num * b.den, a.den * b.num)

IsZero(v) == ~v.nan /\ v.num = 0

RECURSIVE getComputedValue(_)

getComputedValue(e) ==
    CASE e.type = "Int" -> Rat(e.value, 1)
      [] e.type = "Neg" -> NumNeg(getComputedValue(e.arg))
      [] e.type = "Add" ->
            NumAdd(getComputedValue(e.arg1), getComputedValue(e.arg2))
      [] e.type = "Sub" ->
            NumSub(getComputedValue(e.arg1), getComputedValue(e.arg2))
      [] e.type = "Mul" ->
            NumMul(getComputedValue(e.arg1), getComputedValue(e.arg2))
      [] e.type = "Div" ->
            LET denom == getComputedValue(e.arg2) IN
            IF IsZero(denom) THEN NaN
            ELSE NumDiv(getComputedValue(e.arg1), denom)
      [] e.type = "Var" -> NaN

\* Line 374.
iterations == 10

\* Line 375.
range == 100

\* Line 393: the tolerance 0.0001 is 1 / ToleranceInverse.
ToleranceInverse == 10000

\* Line 379: Math.floor(Math.random() * range) - range/2.
RandomDraws == (0 - (range \div 2))..(range - 1 - (range \div 2))

\* Line 393: Math.abs(val1 - val2) > 0.0001, false if an operand is NaN.
ExceedsTolerance(a, b) ==
    /\ ~a.nan
    /\ ~b.nan
    /\ Abs(a.num * b.den - b.num * a.den) * ToleranceInverse > a.den * b.den

-----------------------------------------------------------------------------
(* The Parser, lines 119-222, as a machine.  A frame is one activation of  *)
(* parse, parseAddSub, parseMulDiv or parsePrimary; pc is where the        *)
(* activation continues when the call it made returns.  Entering           *)
(* parseAddSub runs straight into parseMulDiv and parsePrimary (lines 138, *)
(* 157), so a call pushes the whole chain of frames.                       *)

Frame(fn, pc) == [fn |-> fn, pc |-> pc, left |-> None, op |-> ""]

CallPrimary == <<Frame("parsePrimary", "start")>>

CallMulDiv == <<Frame("parseMulDiv", "left")>> \o CallPrimary

CallAddSub == <<Frame("parseAddSub", "left")>> \o CallMulDiv

CallParse == <<Frame("parse", "check")>> \o CallAddSub

NoToken == [type |-> "undefined"]

\* Lines 128-130.
peek == IF pos < Len(tokens) THEN tokens[pos + 1] ELSE NoToken

Top == stack[Len(stack)]

Running(fn, pc) ==
    /\ status = "running"
    /\ stack # <<>>
    /\ Top.fn = fn
    /\ Top.pc = pc

\* return v: the activation ends and its caller continues.
Return(v) ==
    /\ stack' = SubSeq(stack, 1, Len(stack) - 1)
    /\ ret' = v

\* The activation continues at pc after calling what callee pushes.
CallFrom(frame, callee) ==
    /\ stack' = SubSeq(stack, 1, Len(stack) - 1) \o <<frame>> \o callee
    /\ ret' = None

\* throw new Error(msg): no method of the Parser catches it.
Throw(msg) ==
    /\ status' = msg
    /\ stack' = <<>>
    /\ ret' = None
    /\ UNCHANGED <<pos, expr>>

OpType(op) ==
    CASE op = "+" -> "Add"
      [] op = "-" -> "Sub"
      [] op = "*" -> "Mul"
      [] op = "/" -> "Div"

foldBinarySwapped(op, left, right) == BinNode(OpType(op), right, left)

\* Lines 145-149 and 164-168: left = { type, arg1: left, arg2: right }.
foldBinary(op, left, right) == BinNode(OpType(op), left, right)

\* The value of left when the loop test of lines 140 and 159 is reached:
\* the first operand (lines 138, 157), or the fold of the operand just parsed.
LoopLeft ==
    IF Top.pc = "left" THEN ret ELSE foldBinary(Top.op, Top.left, ret)

\* Lines 140-152 (ops = {"+", "-"}) and 159-171 (ops = {"*", "/"}).
LoopStep(ops, callee) ==
    /\ UNCHANGED <<status, expr>>
    /\ \/ /\ peek.type = "op"
          /\ peek.op \in ops
          /\ pos' = pos + 1
          /\ CallFrom([Top EXCEPT !.pc = "right", !.left = LoopLeft,
                                  !.op = peek.op], callee)
       \/ /\ ~(peek.type = "op" /\ peek.op \in ops)
          /\ pos' = pos
          /\ Return(LoopLeft)

parseAddSub ==
    /\ status = "running"
    /\ stack # <<>>
    /\ Top.fn = "parseAddSub"
    /\ LoopStep({"+", "-"}, CallMulDiv)
    /\ UNCHANGED <<text, tokens, srcExpr, evaluated, reevaluated>>
    /\ UNCHANGED equivVars

parseMulDiv ==
    /\ status = "running"
    /\ stack # <<>>
    /\ Top.fn = "parseMulDiv"
    /\ LoopStep({"*", "/"}, CallPrimary)
    /\ UNCHANGED <<text, tokens, srcExpr, evaluated, reevaluated>>
    /\ UNCHANGED equivVars

\* Lines 176-210, up to the call or return.
parsePrimary ==
    /\ Running("parsePrimary", "start")
    /\ \/ /\ peek = NoToken
          /\ Throw("Unexpected end of input")
       \/ /\ peek.type = "op"
          /\ peek.op = "-"
          /\ pos' = pos + 1
          /\ CallFrom([Top EXCEPT !.pc = "neg"], CallPrimary)
          /\ UNCHANGED <<status, expr>>
       \/ /\ peek.type = "number"
          /\ pos' = pos + 1
          /\ Return(IntNode(peek.value))
          /\ UNCHANGED <<status, expr>>
       \/ /\ peek.type = "var"
          /\ pos' = pos + 1
          /\ Return(VarNode(peek.name))
          /\ UNCHANGED <<status, expr>>
       \/ /\ peek.type = "lparen"
          /\ pos' = pos + 1
          /\ CallFrom([Top EXCEPT !.pc = "paren"], CallAddSub)
          /\ UNCHANGED <<status, expr>>
       \/ /\ \/ peek.type = "rparen"
             \/ (peek.type = "op" /\ peek.op # "-")
          /\ Throw("Unexpected token")
    /\ UNCHANGED <<text, tokens, srcExpr, evaluated, reevaluated>>
    /\ UNCHANGED equivVars

\* Line 185: return { type: 'Neg', arg: expr }.
parsePrimaryNeg ==
    /\ Running("parsePrimary", "neg")
    /\ Return(NegNode(ret))
    /\ UNCHANGED <<pos, status, expr>>
    /\ UNCHANGED <<text, tokens, srcExpr, evaluated, reevaluated>>
    /\ UNCHANGED equivVars

\* Lines 202-207.
parsePrimaryParen ==
    /\ Running("parsePrimary", "paren")
    /\ \/ /\ peek.type # "rparen"
          /\ Throw("Expected closing parenthesis")
       \/ /\ peek.type = "rparen"
          /\ pos' = pos + 1
          /\ Return(ret)
          /\ UNCHANGED <<status, expr>>
    /\ UNCHANGED <<text, tokens, srcExpr, evaluated, reevaluated>>
    /\ UNCHANGED equivVars

NoTrailingCheck == FALSE

\* Line 216.
TrailingTokens == pos < Len(tokens)

\* Lines 216-220, and parseExpression's return at line 227.
parse ==
    /\ Running("parse", "check")
    /\ \/ /\ TrailingTokens
          /\ Throw("Unexpected tokens after expression")
       \/ /\ ~TrailingTokens
          /\ status' = "ok"
          /\ stack' = <<>>
          /\ expr' = ret
          /\ UNCHANGED <<pos, ret>>
    /\ UNCHANGED <<text, tokens, srcExpr, evaluated, reevaluated>>
    /\ UNCHANGED equivVars

\* evaluateExpression applied to a tree.
Evaluate ==
    /\ expr # None
    /\ evaluated = None
    /\ evaluated' = evaluateExpression(expr)
    /\ UNCHANGED <<expr, reevaluated>>
    /\ UNCHANGED parserVars
    /\ UNCHANGED equivVars

\* evaluateExpression applied to its own result.
Reevaluate ==
    /\ evaluated # None
    /\ reevaluated = None
    /\ reevaluated' = evaluateExpression(evaluated)
    /\ UNCHANGED <<expr, evaluated>>
    /\ UNCHANGED parserVars
    /\ UNCHANGED equivVars

-----------------------------------------------------------------------------
(* The inputs. *)

X == VarNode(<<"x">>)

Leaves == {IntNode(v) : v \in 0..MaxInt} \cup {X}

RECURSIVE TreesOfSize(_)

\* The well-formed trees with exactly n nodes over Leaves.
TreesOfSize(n) ==
    IF n = 1 THEN Leaves
    ELSE {NegNode(t) : t \in TreesOfSize(n - 1)}
         \cup UNION {UNION {{BinNode(type, l, r) : type \in BinTypes,
                                     l \in TreesOfSize(i)} :
                                r \in TreesOfSize(n - 1 - i)} :
                     i \in 1..(n - 2)}

Trees(n) == UNION {TreesOfSize(k) : k \in 1..n}

\* The texts the specification and the README name.
ExampleTexts ==
    { <<"1", " ", "+", " ", "1", "0">>,
      <<"5", " ", "-", " ", "9">>,
      <<"4", " ", "/", " ", "2">>,
      <<"4", " ", "/", " ", "3">>,
      <<"4", " ", "+", " ", "x", " ", "+", " ", "1">>,
      <<"-", "-", "5">>,
      <<"1", " ", "+", " ">>,
      <<"(", "1", " ", "+", " ", "2">>,
      <<"-", "2", "*", "3">>,
      <<"1", "-", "2", "-", "3">>,
      <<"-", "-", "x">>,
      <<"x", " ", "/", " ", "0">>,
      <<"x", " ", "+", " ", "x">>,
      <<"2", " ", "*", " ", "x">>,
      <<"(", "a", "b", "c", " ", "+", " ", "2", ")", "\t", "*", "3">>,
      <<"1", " ", "+", " ", "*">>,
      <<"1", " ", "2">>,
      <<"1", " ", "?", " ", "2">>,
      <<>> }

\* Trees with literals of several digits and a name of several letters.
RenderExamples ==
    { AddNode(IntNode(10), VarNode(<<"a", "b", "c">>)),
      NegNode(NegNode(IntNode(105))),
      DivNode(MulNode(IntNode(12), X), SubNode(IntNode(0), IntNode(7))),
      SubNode(IntNode(1), SubNode(IntNode(2), IntNode(3))),
      MulNode(AddNode(IntNode(1), IntNode(2)), VarNode(<<"Y">>)) }

TokenAlphabet ==
    {NumberTok(1), VarTok(<<"x">>), OpTok("+"), OpTok("-"), OpTok("*"),
     OpTok("/"), LParenTok, RParenTok}

TokenSeqs == UNION {[1..n -> TokenAlphabet] : n \in 0..MaxLen}

\* A text of one token.
TokenText(tok) ==
    CASE tok.type = "number" -> numberToString(tok.value)
      [] tok.type = "var" -> tok.name
      [] tok.type = "op" -> <<tok.op>>
      [] tok.type = "lparen" -> <<"(">>
      [] tok.type = "rparen" -> <<")">>

RECURSIVE TokensText(_)

\* A text of a token sequence: the tokens' texts, a space after each.
TokensText(toks) ==
    IF toks = <<>> THEN <<>>
    ELSE TokenText(Head(toks)) \o <<" ">> \o TokensText(Tail(toks))

-----------------------------------------------------------------------------
(* Initial states. *)

EvalIdle ==
    /\ evaluated = None
    /\ reevaluated = None

EquivIdle ==
    /\ expr1 = None
    /\ expr2 = None
    /\ iter = 0
    /\ varMap = <<>>
    /\ val1 = None
    /\ val2 = None
    /\ eqpc = "idle"
    /\ eqResult = "none"

\* parseExpression(t), lines 224-227: tokenize, new Parser(tokens), parse().
ParseExpressionCalled(t) ==
    /\ text = t
    /\ pos = 0
    /\ ret = None
    /\ expr = None
    /\ \/ /\ tokenize(t).ok
          /\ tokens = tokenize(t).tokens
          /\ stack = CallParse
          /\ status = "running"
       \/ /\ ~tokenize(t).ok
          /\ tokens = <<>>
          /\ stack = <<>>
          /\ status = "Unexpected character"

ParserIdle ==
    /\ text = <<>>
    /\ tokens = <<>>
    /\ pos = 0
    /\ stack = <<>>
    /\ ret = None
    /\ status = "idle"
    /\ srcExpr = None

\* evaluateExpression is about to be applied to a tree, or to what
\* parseExpression returns for one of the example texts.
InitEval ==
    /\ EvalIdle
    /\ EquivIdle
    /\ \/ /\ ParserIdle
          /\ expr \in Trees(MaxNodes)
       \/ /\ srcExpr = None
          /\ \E t \in ExampleTexts : ParseExpressionCalled(t)

\* parseExpression is called on the text of a token sequence, on an example
\* text, or on the rendering of a tree.
InitParse ==
    /\ EvalIdle
    /\ EquivIdle
    /\ \/ /\ srcExpr = None
          /\ \E toks \in TokenSeqs : ParseExpressionCalled(TokensText(toks))
       \/ /\ srcExpr = None
          /\ \E t \in ExampleTexts : ParseExpressionCalled(t)
       \/ /\ srcExpr \in Trees(MaxRenderNodes) \cup RenderExamples
          /\ ParseExpressionCalled(renderExpression(srcExpr))

NextPipeline ==
    \/ parseAddSub
    \/ parseMulDiv
    \/ parsePrimary
    \/ parsePrimaryNeg
    \/ parsePrimaryParen
    \/ parse
    \/ Evaluate
    \/ Reevaluate

SpecEval == InitEval /\ [][NextPipeline]_vars

SpecParse == InitParse /\ [][NextPipeline]_vars

-----------------------------------------------------------------------------
(* Properties of evaluateExpression, checked under SpecEval. *)

Text4PlusXPlus1 == <<"4", " ", "+", " ", "x", " ", "+", " ", "1">>

RECURSIVE Subtrees(_)

\* The nodes of a tree, as the subtrees they root.
Subtrees(e) ==
    {e} \cup
    (IF e.type \in BinTypes THEN Subtrees(e.arg1) \cup Subtrees(e.arg2)
     ELSE IF e.type = "Neg" THEN Subtrees(e.arg)
     ELSE {})

\* The data-model invariant: every Int value is >= 0.
WellFormed(e) == \A n \in Subtrees(e) : n.type = "Int" => n.value >= 0

IsNegNeg(n) == n.type = "Neg" /\ n.arg.type = "Neg"

IsNegativeInt(n) == n.type = "Int" /\ n.value < 0

\* A numeric node in the words of the specification: Int or Neg(Int).
IsNumericNode(n) == n.type = "Int" \/ (n.type = "Neg" /\ n.arg.type = "Int")

NumericValue(n) == IF n.type = "Int" THEN n.value ELSE 0 - n.arg.value

\* The standardized form of an integer: Int(k) for k >= 0, Neg(Int(-k)) else.
Canonical(k) == IF k >= 0 THEN IntNode(k) ELSE NegNode(IntNode(0 - k))

\* C1: for every well-formed e, evaluateExpression(e) contains at no depth a
\* Neg whose child is a Neg, nor an Int with a negative value.
C1_Standardization ==
    (evaluated # None /\ WellFormed(expr)) =>
        \A n \in Subtrees(evaluated) : ~IsNegNeg(n) /\ ~IsNegativeInt(n)

\* A tree with a double negation around a negative difference was evaluated.
C1_Witness ==
    /\ expr = NegNode(NegNode(SubNode(IntNode(0), IntNode(1))))
    /\ evaluated = NegNode(IntNode(1))

\* C2: for every well-formed e, evaluateExpression(evaluateExpression(e)) is
\* structurally equal to evaluateExpression(e).
C2_Idempotence ==
    (reevaluated # None /\ WellFormed(expr)) => reevaluated = evaluated

\* A tree that evaluation changes was evaluated twice.
C2_Witness ==
    /\ expr = NegNode(NegNode(AddNode(IntNode(1), IntNode(2))))
    /\ evaluated = IntNode(3)
    /\ reevaluated = IntNode(3)

\* C3: for every well-formed e, every numeric node of evaluateExpression(e)
\* is Int(n) with n >= 0 or Neg(Int(n)) with n > 0: Neg(Int(0)) never appears.
C3_CanonicalNumeric ==
    (evaluated # None /\ WellFormed(expr)) =>
        \A n \in Subtrees(evaluated) :
            IsNumericNode(n) => n = Canonical(NumericValue(n))

Divides(b, a) == \E k \in (0 - Abs(a))..Abs(a) : a = k * b

ExactQuotient(a, b) == CHOOSE k \in (0 - Abs(a))..Abs(a) : a = k * b

\* C5: a Div node collapses to the standardized exact quotient if and only if
\* both evaluated children are numeric, the divisor is nonzero and it divides
\* the dividend exactly, for every combination of signs; otherwise the result
\* is Div of the two evaluated children (4/2 -> Int 2, 4/3 -> Div(Int 4, Int 3)).
C5_DivReduction ==
    /\ (evaluated # None /\ expr.type = "Div") =>
          LET l == evaluateExpression(expr.arg1)
              r == evaluateExpression(expr.arg2)
          IN  IF /\ IsNumericNode(l)
                 /\ IsNumericNode(r)
                 /\ NumericValue(r) # 0
                 /\ Divides(NumericValue(r), NumericValue(l))
              THEN evaluated =
                     Canonical(ExactQuotient(NumericValue(l), NumericValue(r)))
              ELSE evaluated = DivNode(l, r)
    /\ (evaluated # None /\ text = <<"4", " ", "/", " ", "2">>) =>
          evaluated = IntNode(2)
    /\ (evaluated # None /\ text = <<"4", " ", "/", " ", "3">>) =>
          evaluated = DivNode(IntNode(4), IntNode(3))

\* A negative dividend was divided exactly by a negative divisor.
C5_Witness ==
    /\ expr = DivNode(NegNode(IntNode(2)), NegNode(IntNode(1)))
    /\ evaluated = IntNode(2)

\* C6: evaluateExpression(parseExpression("4 + x + 1")) is Add(Int 5, Var x),
\* which renders as 5 + x (the README's example).
C6_ReadmeReduction ==
    (evaluated # None /\ text = Text4PlusXPlus1) =>
        evaluated = AddNode(IntNode(5), X)

-----------------------------------------------------------------------------
(* The grammar of the specification, as the trees it derives:              *)
(*   AddSub  := MulDiv (('+' | '-') MulDiv)*     folding left              *)
(*   MulDiv  := Primary (('*' | '/') Primary)*   folding left              *)
(*   Primary := '-' Primary | NUMBER | VAR | '(' AddSub ')'                *)
(* G...(ts, i, j) is the set of trees the rule derives from ts[i..j].      *)

IsOp(tok, ops) == tok.type = "op" /\ tok.op \in ops

RECURSIVE GPrimary(_, _, _)
RECURSIVE GMulDiv(_, _, _)
RECURSIVE GAddSub(_, _, _)

GPrimary(ts, i, j) ==
    IF i > j THEN {}
    ELSE IF ts[i].type = "number" THEN
            IF i = j THEN {IntNode(ts[i].value)} ELSE {}
    ELSE IF ts[i].type = "var" THEN
            IF i = j THEN {VarNode(ts[i].name)} ELSE {}
    ELSE IF IsOp(ts[i], {"-"}) THEN
            {NegNode(t) : t \in GPrimary(ts, i + 1, j)}
    ELSE IF ts[i].type = "lparen" /\ ts[j].type = "rparen" THEN
            GAddSub(ts, i + 1, j - 1)
    ELSE {}

GMulDiv(ts, i, j) ==
    GPrimary(ts, i, j) \cup
    UNION { {BinNode(OpType(ts[k].op), l, r) :
                l \in GMulDiv(ts, i, k - 1), r \in GPrimary(ts, k + 1, j)} :
            k \in {m \in (i + 1)..(j - 1) : IsOp(ts[m], {"*", "/"})} }

GAddSub(ts, i, j) ==
    GMulDiv(ts, i, j) \cup
    UNION { {BinNode(OpType(ts[k].op), l, r) :
                l \in GAddSub(ts, i, k - 1), r \in GMulDiv(ts, k + 1, j)} :
            k \in {m \in (i + 1)..(j - 1) : IsOp(ts[m], {"+", "-"})} }

Derived == GAddSub(tokens, 1, Len(tokens))

ErrorMessages ==
    {"Unexpected character", "Unexpected end of input", "Unexpected token",
     "Expected closing parenthesis", "Unexpected tokens after expression"}

\* parseExpression has returned or thrown.
Finished == status = "ok" \/ status \in ErrorMessages

-----------------------------------------------------------------------------
(* Properties of the Parser, checked under SpecParse. *)

\* C7: for every token sequence the grammar derives, parseExpression returns
\* exactly the tree the grammar dictates: operators of one level fold left
\* (1-2-3 -> Sub(Sub(1,2),3)), '*' and '/' bind tighter than '+' and '-',
\* unary minus binds tighter than '*' and '/' (-2*3 -> Mul(Neg(Int 2), Int 3))
\* and stacks (--x -> Neg(Neg(Var x))), and a parenthesized group restarts
\* at the AddSub level.
C7_ParserGrammar ==
    /\ (Finished /\ Derived # {}) => (status = "ok" /\ Derived = {expr})
    /\ (Finished /\ text = <<"1", "-", "2", "-", "3">>) =>
          expr = SubNode(SubNode(IntNode(1), IntNode(2)), IntNode(3))
    /\ (Finished /\ text = <<"-", "2", "*", "3">>) =>
          expr = MulNode(NegNode(IntNode(2)), IntNode(3))
    /\ (Finished /\ text = <<"-", "-", "x">>) => expr = NegNode(NegNode(X))
    /\ (Finished /\ text = <<"x", " ", "/", " ", "0">>) =>
          expr = DivNode(X, IntNode(0))
    /\ (Finished /\ text = <<"x", " ", "+", " ", "x">>) => expr = AddNode(X, X)
    /\ (Finished /\ text = <<"2", " ", "*", " ", "x">>) =>
          expr = MulNode(IntNode(2), X)
    /\ (Finished /\ text = <<"1", " ", "+", " ", "1", "0">>) =>
          expr = AddNode(IntNode(1), IntNode(10))

\* A text with operators of both levels was parsed: 1 + x * 1.
C7_Witness ==
    /\ status = "ok"
    /\ tokens = <<NumberTok(1), OpTok("+"), VarTok(<<"x">>), OpTok("*"),
                  NumberTok(1)>>
    /\ expr = AddNode(IntNode(1), MulNode(X, IntNode(1)))

C8_State ==
    /\ pos <= Len(tokens)
    /\ status = "ok" => (pos = Len(tokens) /\ expr # None /\ Derived # {})
    /\ status \in ErrorMessages => expr = None
    /\ (Finished /\ Derived = {}) => status \in ErrorMessages
    /\ (Finished /\ text = <<>>) => status = "Unexpected end of input"
    /\ (Finished /\ text = <<"1", " ", "+", " ">>) =>
          status = "Unexpected end of input"
    /\ (Finished /\ text = <<"(", "1", " ", "+", " ", "2">>) =>
          status = "Expected closing parenthesis"
    /\ (Finished /\ text = <<"1", " ", "+", " ", "*">>) =>
          status = "Unexpected token"
    /\ (Finished /\ text = <<"1", " ", "2">>) =>
          status = "Unexpected tokens after expression"

\* C8: parseExpression throws and returns no tree when the input ends where
\* an operand is expected (the empty input, "1 + "), when a '(' is not closed
\* ("(1 + 2"), when a token that cannot start an operand is in primary
\* position, or when tokens remain after a complete expression; whenever it
\* returns a tree the cursor has consumed the whole token sequence; the
\* cursor never moves backwards nor past the end of the token sequence.
C8_ParserFailure == []C8_State /\ [][pos' >= pos]_vars

\* An unclosed group was rejected with the cursor at the end of the tokens.
C8_Witness ==
    /\ text = <<"(", "1", " ", "+", " ", "2">>
    /\ status = "Expected closing parenthesis"
    /\ pos = Len(tokens)

\* C10: for every well-formed e, parsing renderExpression(e) never fails and
\* evaluateExpression(parseExpression(renderExpression(e))) is structurally
\* equal to evaluateExpression(e).
C10_RoundTrip ==
    /\ (srcExpr # None /\ Finished) => status = "ok"
    /\ (srcExpr # None /\ evaluated # None) =>
          evaluated = evaluateExpression(srcExpr)

\* The rendering of a negated sum was parsed back and evaluated.
C10_Witness ==
    /\ srcExpr = NegNode(AddNode(IntNode(1), IntNode(2)))
    /\ text = <<"(", "-", "(", "1", " ", "+", " ", "2", ")", ")">>
    /\ evaluated = NegNode(IntNode(3))

-----------------------------------------------------------------------------
(* areExpressionsEquivalent, lines 363-400. *)

Y == VarNode(<<"y">>)

XPow4 == MulNode(MulNode(X, X), MulNode(X, X))

\* The pairs of expressions that are compared.
EquivPairs ==
    { <<DivNode(X, IntNode(0)), IntNode(1)>>,
      <<AddNode(X, X), MulNode(IntNode(2), X)>>,
      <<X, AddNode(X, IntNode(1))>>,
      <<MulNode(X, X), X>>,
      <<DivNode(X, X), IntNode(1)>>,
      <<NegNode(X), SubNode(IntNode(0), X)>>,
      <<DivNode(X, IntNode(2)), DivNode(MulNode(X, IntNode(2)), IntNode(4))>>,
      <<DivNode(X, IntNode(3)), DivNode(X, IntNode(4))>>,
      <<DivNode(IntNode(1), XPow4), IntNode(0)>>,
      <<DivNode(IntNode(6), SubNode(X, IntNode(2))), IntNode(3)>>,
      <<IntNode(2), DivNode(IntNode(4), IntNode(2))>>,
      <<X, VarNode(<<"X">>)>>,
      <<SubNode(X, Y), NegNode(SubNode(Y, X))>> }

\* Lines 365-367: the union of both variable sets.
EquivVars == getVariablesSet(expr1) \cup getVariablesSet(expr2)

InitEquiv ==
    /\ ParserIdle
    /\ expr = None
    /\ EvalIdle
    /\ \E pair \in EquivPairs : expr1 = pair[1] /\ expr2 = pair[2]
    /\ iter = 0
    /\ varMap = <<>>
    /\ val1 = None
    /\ val2 = None
    /\ eqpc = "loop"
    /\ eqResult = "none"

\* Lines 376-380: a trial begins and every variable is drawn.
EquivDraw ==
    /\ eqpc = "loop"
    /\ iter < iterations
    /\ varMap' \in [EquivVars -> RandomDraws]
    /\ eqpc' = "drawn"
    /\ UNCHANGED <<expr1, expr2, iter, val1, val2, eqResult>>
    /\ UNCHANGED parserVars
    /\ UNCHANGED evalVars

\* Lines 382-389: substitute, evaluate, fold.
EquivCompute ==
    /\ eqpc = "drawn"
    /\ val1' = getComputedValue(
                  evaluateExpression(substituteVariables(varMap, expr1)))
    /\ val2' = getComputedValue(
                  evaluateExpression(substituteVariables(varMap, expr2)))
    /\ eqpc' = "computed"
    /\ UNCHANGED <<expr1, expr2, iter, varMap, eqResult>>
    /\ UNCHANGED parserVars
    /\ UNCHANGED evalVars

\* Lines 392-397: return false on a mismatch, else go on to the next trial
\* (the trial's varMap, val1 and val2 go out of scope).
EquivCompare ==
    /\ eqpc = "computed"
    /\ \/ /\ ~isNaN(val1) /\ ~isNaN(val2)
          /\ ExceedsTolerance(val1, val2)
          /\ eqResult' = "false"
          /\ eqpc' = "done"
          /\ UNCHANGED <<iter, varMap, val1, val2>>
       \/ /\ ~(~isNaN(val1) /\ ~isNaN(val2) /\ ExceedsTolerance(val1, val2))
          /\ iter' = iter + 1
          /\ eqpc' = "loop"
          /\ varMap' = <<>>
          /\ val1' = None
          /\ val2' = None
          /\ UNCHANGED eqResult
    /\ UNCHANGED <<expr1, expr2>>
    /\ UNCHANGED parserVars
    /\ UNCHANGED evalVars

\* Lines 376 and 399: the loop ends and true is returned.
EquivReturnTrue ==
    /\ eqpc = "loop"
    /\ iter >= iterations
    /\ eqResult' = "true"
    /\ eqpc' = "done"
    /\ UNCHANGED <<expr1, expr2, iter, varMap, val1, val2>>
    /\ UNCHANGED parserVars
    /\ UNCHANGED evalVars

NextEquiv ==
    \/ EquivDraw
    \/ EquivCompute
    \/ EquivCompare
    \/ EquivReturnTrue

SpecEquiv == InitEquiv /\ [][NextEquiv]_vars

-----------------------------------------------------------------------------
(* Properties of areExpressionsEquivalent, checked under SpecEquiv. *)

RECURSIVE MathValue(_, _)

\* The value of an expression under an assignment, in exact rational
\* arithmetic; NaN (undefined) when a denominator is zero or undefined.
MathValue(e, m) ==
    CASE e.type = "Int" -> Rat(e.value, 1)
      [] e.type = "Var" -> Rat(m[e.name], 1)
      [] e.type = "Neg" -> NumNeg(MathValue(e.arg, m))
      [] e.type = "Add" -> NumAdd(MathValue(e.arg1, m), MathValue(e.arg2, m))
      [] e.type = "Sub" -> NumSub(MathValue(e.arg1, m), MathValue(e.arg2, m))
      [] e.type = "Mul" -> NumMul(MathValue(e.arg1, m), MathValue(e.arg2, m))
      [] e.type = "Div" ->
            IF MathValue(e.arg2, m).nan \/ MathValue(e.arg2, m).num = 0
            THEN NaN
            ELSE NumDiv(MathValue(e.arg1, m), MathValue(e.arg2, m))

\* Both sides are defined under m and differ by more than 1e-4.
Disproves(m) ==
    LET a == MathValue(expr1, m)
        b == MathValue(expr2, m)
    IN  /\ ~a.nan
        /\ ~b.nan
        /\ Abs(a.num * b.den - b.num * a.den) * 10000 > a.den * b.den

C9_State ==
    /\ eqpc = "computed" =>
          /\ val1 = MathValue(expr1, varMap)
          /\ val2 = MathValue(expr2, varMap)
    /\ eqResult = "false" => Disproves(varMap)
    /\ eqResult = "true" => iter = 10
    /\ (expr1 = DivNode(X, IntNode(0)) /\ expr2 = IntNode(1)) =>
          eqResult # "false"
    /\ (expr1 = AddNode(X, X) /\ expr2 = MulNode(IntNode(2), X)) =>
          eqResult # "false"

C9_Step ==
    /\ eqpc = "drawn" =>
          /\ DOMAIN varMap = getVariablesSet(expr1) \cup getVariablesSet(expr2)
          /\ \A v \in DOMAIN varMap : varMap[v] >= -50 /\ varMap[v] < 50
    /\ eqpc = "computed" =>
          IF Disproves(varMap)
          THEN eqResult' = "false"
          ELSE eqResult' = "none" /\ iter' = iter + 1

\* C9: with every variable of either expression drawn from [-50, 50) once
\* per trial, 10 trials, areExpressionsEquivalent returns false if and only
\* if some trial has both folded values defined and differing by more than
\* 1e-4; a trial in which a side is undefined is skipped.  So it never
\* returns false for x / 0 and 1, nor for x + x and 2 * x.
C9_TrialSemantics == []C9_State /\ [][C9_Step]_vars

\* x / 0 and 1 were declared equivalent after ten skipped trials.
C9_Witness ==
    /\ expr1 = DivNode(X, IntNode(0))
    /\ expr2 = IntNode(1)
    /\ eqResult = "true"
    /\ iter = 10

=============================================================================
